---- MODULE Spec2Model ----
(***************************************************************************)
(* Models of three programs of the repository.  The largest is the deet    *)
(* debugger (proj-1/deet): the command loop of Debugger::run, the          *)
(* resume/wait cycle of Debugger::go, the breakpoint patching of           *)
(* insert_breakpoint / restore_breakpoint, and the word-level              *)
(* read-modify-write of Inferior::write_byte, run against a small traced   *)
(* target whose instructions are decoded from the bytes of its memory.     *)
(* The others are parallel_map (week6) with its channels and worker        *)
(* threads, and the balancebeam proxy (proj-2): its rate limiter, its      *)
(* choice of an upstream and its active health check.                      *)
(***************************************************************************)
EXTENDS Integers, Sequences, FiniteSets, TLC

VARIABLES
    pc,           \* where the debugger is: "prompt", inside the Run handler, "done", "panicked"
    inferior,     \* Debugger.inferior: None or the pid of the Inferior's child
    breakpoints,  \* Debugger.breakpoints: address -> None | Breakpoint
    procs,        \* the kernel's view of every child launched so far, by pid
    newInf,       \* the local `inferior` of the Run arm (None outside it)
    pending,      \* the keys the Run arm's for loop has still to visit
    line,         \* the tokens of the input line read last
    cmd,          \* the command being (or last) executed
    out,          \* what the current (or last) command printed
    waited,       \* what waitpid gave the current (or last) command and what Inferior::wait made of it
    trace,        \* the trace requests the current (or last) command issued
    hist,         \* observations about the current target's execution
    call,         \* the function call in progress when one function is run on its own
    pmap,         \* parallel_map: its channels, its worker threads and its caller
    proxy,        \* balancebeam: its ProxyState, its tasks and the hosts around it
    list          \* a LinkedList (week2, week3) and what its owner did with it

vars == <<pc, inferior, breakpoints, procs, newInf, pending, line, cmd, out, waited, trace, hist, call, pmap, proxy, list>>

----------------------------------------------------------------------------
(* Bounds of the model *)

\* number of children one session may launch
MaxLaunches == 2
\* trip count of the target's loop (the immediate operand of its first instruction)
LoopCount == 2
\* size of the target's mapped memory, in machine words
MemWords == 5
\* steps a resumed target may take before the model gives up following it
Fuel == 40
\* characters of the longest address literal parse_address is run on
MaxLitLen == 3
\* length of the longest input vector of parallel_map, and its most threads
MaxItems == 3
MaxThreads == 2
\* the largest max_requests_per_minute, the requests of one run of the rate
\* limiter, and the seconds its clock runs
MaxRpm == 2
MaxRequests == 4
MaxClock == 120
\* the most upstreams of the proxy, the connections it handles in one run, and
\* the times an upstream host changes its behaviour
MaxUpstreams == 2
MaxTasks == 2
MaxHostChanges == 1
\* the most nodes of the LinkedList
MaxNodes == 3
\* turns of the stack walk's loop the model follows
MaxFrames == 4

----------------------------------------------------------------------------
(* Program constants *)

\* size_of::<usize>() on the 64-bit target
WordSize == 8
\* parse_address("0xcc"): the trap opcode
TrapOpcode == 204

\* Option<T>: None is the empty sequence, Some(x) the sequence of x alone
None == << >>
Some(x) == <<x>>
Unwrap(o) == o[1]

MemSize == MemWords * WordSize
Addr == 0 .. (MemSize - 1)

----------------------------------------------------------------------------
(* Bytes and machine words.  A u64 is held as its eight base-256 digits,     *)
(* least significant first (the x86-64 byte order), so that shifts by a      *)
(* multiple of eight bits, masks and ors are computed digit by digit.        *)

RECURSIVE BitAnd(_, _)
BitAnd(a, b) ==
    IF a = 0 \/ b = 0 THEN 0
    ELSE (a % 2) * (b % 2) + 2 * BitAnd(a \div 2, b \div 2)

RECURSIVE BitOr(_, _)
BitOr(a, b) ==
    IF a = 0 THEN b
    ELSE IF b = 0 THEN a
    ELSE (IF (a % 2) + (b % 2) > 0 THEN 1 ELSE 0) + 2 * BitOr(a \div 2, b \div 2)

Digits == 0 .. (WordSize - 1)

\* `v as u64`
WordOfByte(v) == [i \in Digits |-> IF i = 0 THEN v ELSE 0]
\* w << 8 * k
WordShl(w, k) == [i \in Digits |-> IF i >= k THEN w[i - k] ELSE 0]
\* w >> 8 * k
WordShr(w, k) == [i \in Digits |-> IF i + k < WordSize THEN w[i + k] ELSE 0]
WordAnd(v, w) == [i \in Digits |-> BitAnd(v[i], w[i])]
WordOr(v, w) == [i \in Digits |-> BitOr(v[i], w[i])]
WordNot(w) == [i \in Digits |-> 255 - w[i]]
\* `x as u8`
LowByte(w) == w[0]

----------------------------------------------------------------------------
(* Memory access of the traced child (ptrace peek / poke of one word).      *)

\* a word can be transferred when all of it lies in mapped memory
Mapped(addr) == addr >= 0 /\ addr + WordSize <= MemSize

\* ptrace::read(pid, addr)
PeekWord(mem, addr) == [i \in Digits |-> mem[addr + i]]

\* ptrace::write(pid, addr, word)
PokeWord(mem, addr, w) ==
    [a \in Addr |-> IF a >= addr /\ a < addr + WordSize THEN w[a - addr] ELSE mem[a]]

\* addr & (-(size_of::<usize>() as isize) as usize): clear the low three bits
align_addr_to_word(addr) == (addr \div WordSize) * WordSize

\* Inferior::read_byte (which reads a whole word)
read_byte(mem, addr) == PeekWord(mem, addr)

\* write_byte with the shift of the read dropped: it returns the word's lowest byte
write_byte_unshifted(mem, addr, val) ==
    LET aligned_addr == align_addr_to_word(addr)
        byte_offset == addr - aligned_addr
        word == read_byte(mem, aligned_addr)
        orig_byte == WordAnd(word, WordOfByte(255))
        masked_word == WordAnd(word, WordNot(WordShl(WordOfByte(255), byte_offset)))
        updated_word == WordOr(masked_word, WordShl(WordOfByte(val), byte_offset))
    IN  [mem |-> PokeWord(mem, aligned_addr, updated_word), orig |-> LowByte(orig_byte)]

\* write_byte without the mask: the new byte is or-ed onto the old one
write_byte_unmasked(mem, addr, val) ==
    LET aligned_addr == align_addr_to_word(addr)
        byte_offset == addr - aligned_addr
        word == read_byte(mem, aligned_addr)
        orig_byte == WordAnd(WordShr(word, byte_offset), WordOfByte(255))
        updated_word == WordOr(word, WordShl(WordOfByte(val), byte_offset))
    IN  [mem |-> PokeWord(mem, aligned_addr, updated_word), orig |-> LowByte(orig_byte)]

\* Inferior::write_byte: the result of the Ok case, [mem: the memory after, orig: the byte returned]
write_byte(mem, addr, val) ==
    LET aligned_addr == align_addr_to_word(addr)
        byte_offset == addr - aligned_addr
        word == read_byte(mem, aligned_addr)
        orig_byte == WordAnd(WordShr(word, byte_offset), WordOfByte(255))
        masked_word == WordAnd(word, WordNot(WordShl(WordOfByte(255), byte_offset)))
        updated_word == WordOr(masked_word, WordShl(WordOfByte(val), byte_offset))
    IN  [mem |-> PokeWord(mem, aligned_addr, updated_word), orig |-> LowByte(orig_byte)]

\* write_byte returns Err when the peek or the poke of the aligned word fails
write_byte_ok(addr) == Mapped(align_addr_to_word(addr))

----------------------------------------------------------------------------
(* The traced target.  Its memory is an array of bytes; the instruction at   *)
(* the instruction pointer is decoded from them, so a patched byte changes   *)
(* what runs.  The program the kernel loads at exec:                         *)
(*     0: b1 NN   mov cl, LoopCount                                          *)
(*     2: 90      nop               <- head of the loop                      *)
(*     3: e2 fd   loop 2            (rcx := rcx - 1; jump to 2 while rcx # 0) *)
(*     5: cc      int3              (a trap of the program's own)            *)
(*     6: c3      ret               (return from main: exit status 0)        *)
(*     8: 90      nop               (function foo, which main never calls)   *)
(*     9: c3      ret                                                        *)
(* The words from 16 on are the stack.                                       *)

\* the addresses an operator may name in a breakpoint command; MemSize is unmapped
BpChoices == {2, 3, 9, MemSize}

ProgramImage ==
    [a \in Addr |->
        CASE a = 0 -> 177
          [] a = 1 -> LoopCount
          [] a = 2 -> 144
          [] a = 3 -> 226
          [] a = 4 -> 253
          [] a = 5 -> TrapOpcode
          [] a = 6 -> 195
          [] a = 8 -> 144
          [] a = 9 -> 195
          [] OTHER -> 0]

\* a rel8 operand as a signed displacement
Signed8(b) == IF b >= 128 THEN b - 256 ELSE b

ZeroCount == [a \in BpChoices |-> 0]
Bump(f, a) == IF a \in DOMAIN f THEN [f EXCEPT ![a] = @ + 1] ELSE f

\* One resume of the target: it runs from cpu.rip until the kernel has something
\* for waitpid.  reg is the set of registered breakpoint addresses; cpu.passes[a]
\* counts the times control arrived at a registered address a, cpu.origExec[a]
\* the times the program's own instruction at a was executed there.
RECURSIVE RunTarget(_, _, _, _)
RunTarget(mem, cpu, reg, fuel) ==
    LET rip == cpu.rip
        op == mem[rip]
        seen == IF rip \in reg
                THEN [cpu EXCEPT !.passes = Bump(@, rip),
                                 !.origExec = IF op = ProgramImage[rip] THEN Bump(@, rip) ELSE @]
                ELSE cpu
    IN  IF fuel = 0 THEN [ev |-> "running", sig |-> "none", cpu |-> cpu]
        ELSE IF rip \notin Addr THEN [ev |-> "stopped", sig |-> "SIGSEGV", cpu |-> cpu]
        ELSE CASE op = TrapOpcode ->
                    [ev |-> "stopped", sig |-> "SIGTRAP", cpu |-> [seen EXCEPT !.rip = rip + 1]]
               [] op = 144 \/ op = 253 ->
                    RunTarget(mem, [seen EXCEPT !.rip = rip + 1], reg, fuel - 1)
               [] op = 177 /\ rip + 1 \in Addr ->
                    RunTarget(mem, [seen EXCEPT !.rip = rip + 2, !.rcx = mem[rip + 1]], reg, fuel - 1)
               [] op = 226 /\ rip + 1 \in Addr /\ cpu.rcx > 0 ->
                    RunTarget(mem,
                              [seen EXCEPT !.rcx = cpu.rcx - 1,
                                           !.rip = IF cpu.rcx - 1 # 0
                                                   THEN rip + 2 + Signed8(mem[rip + 1])
                                                   ELSE rip + 2],
                              reg, fuel - 1)
               [] op = 226 /\ rip + 1 \in Addr /\ cpu.rcx = 0 ->
                    \* rcx wraps to 2^64 - 1: the loop does not end within any wait
                    [ev |-> "running", sig |-> "none", cpu |-> seen]
               [] op = 195 -> [ev |-> "exited", sig |-> "none", cpu |-> seen]
               [] OTHER -> [ev |-> "stopped", sig |-> "SIGILL", cpu |-> cpu]

----------------------------------------------------------------------------
(* The kernel's record of a child.                                          *)

DeadProc == [alive |-> FALSE, stopped |-> FALSE, mem |-> [a \in Addr |-> 0], rip |-> 0, rcx |-> 0, rbp |-> 0]

\* a child just forked by Command::spawn: it has called PTRACE_TRACEME and is on
\* its way to the stop at exec, which nothing in Inferior::new waits for
SpawnedProc == [alive |-> TRUE, stopped |-> FALSE, mem |-> ProgramImage, rip |-> 0, rcx |-> 0, rbp |-> 0]

\* a trace request (peek, poke, cont, getregs) succeeds only on a live child in ptrace-stop
Traceable(pid) == pid # None /\ procs[Unwrap(pid)].alive /\ procs[Unwrap(pid)].stopped

AliveChildren == {p \in DOMAIN procs : procs[p].alive}

\* hist.stops[a]: the stops the debugger reported at registered address a;
\* hist.snap: when the latest write to the child's memory was an
\* insert_breakpoint, the address it patched and the memory just before it
NoSnap == [addr |-> -1, mem |-> ProgramImage]
ZeroHist == [passes |-> ZeroCount, origExec |-> ZeroCount, stops |-> ZeroCount, snap |-> NoSnap]

\* nix's WaitStatus, as waitpid returns it, and Inferior's Status: the kind, the
\* signal it carries ("none" when it carries none) and its number (exit code or
\* instruction pointer, 0 when it carries none)
WaitStatus(kind, sig, val) == [kind |-> kind, sig |-> sig, val |-> val]
Status(kind, sig, val) == [kind |-> kind, sig |-> sig, val |-> val]
NoWait == [ws |-> WaitStatus("none", "none", 0), st |-> Status("none", "none", 0)]
NoCall == [fn |-> "none"]

\* wait whose last arm returns Continued where the code panics
wait_tolerant(ws, regs) ==
    CASE ws.kind = "Exited" -> [panic |-> FALSE, st |-> Status("Exited", "none", ws.val)]
      [] ws.kind = "Signaled" -> [panic |-> FALSE, st |-> Status("Signaled", ws.sig, 0)]
      [] ws.kind = "Stopped" -> [panic |-> FALSE, st |-> Status("Stopped", ws.sig, regs.rip)]
      [] OTHER -> [panic |-> FALSE, st |-> Status("Continued", "none", 0)]

\* Inferior::wait on the status waitpid returned: [panic: the arm for any other
\* status was taken, st: the Status returned]
wait(ws, regs) ==
    CASE ws.kind = "Exited" -> [panic |-> FALSE, st |-> Status("Exited", "none", ws.val)]
      [] ws.kind = "Signaled" -> [panic |-> FALSE, st |-> Status("Signaled", ws.sig, 0)]
      [] ws.kind = "Stopped" -> [panic |-> FALSE, st |-> Status("Stopped", ws.sig, regs.rip)]
      [] OTHER -> [panic |-> TRUE, st |-> NoWait.st]

----------------------------------------------------------------------------
Init ==
    /\ pc = "prompt"
    /\ inferior = None
    /\ breakpoints = << >>
    /\ procs = << >>
    /\ newInf = None
    /\ pending = {}
    /\ line = << >>
    /\ cmd = <<"none">>
    /\ out = << >>
    /\ waited = NoWait
    /\ trace = << >>
    /\ hist = ZeroHist
    /\ call = NoCall
    /\ pmap = NoCall
    /\ proxy = NoCall
    /\ list = NoCall

----------------------------------------------------------------------------
(* Breakpoint manager.                                                       *)

Breakpoint(cur, orig) == [cur_byte |-> cur, orig_byte |-> orig]

\* the memory of the child self.inferior refers to
InferiorMem == IF inferior # None THEN procs[Unwrap(inferior)].mem ELSE ProgramImage

\* Debugger::insert_breakpoint: [panic: the unwrap of write_byte's Err, bp: the
\* value returned, mem: the child's memory afterwards]
insert_breakpoint(mem_addr) ==
    LET cur_byte == TrapOpcode
    IN  IF inferior # None
        THEN IF Traceable(inferior) /\ write_byte_ok(mem_addr)
             THEN LET w == write_byte(InferiorMem, mem_addr, cur_byte)
                  IN  [panic |-> FALSE, bp |-> Some(Breakpoint(cur_byte, w.orig)), mem |-> w.mem]
             ELSE [panic |-> TRUE, bp |-> None, mem |-> InferiorMem]
        ELSE [panic |-> FALSE, bp |-> None, mem |-> InferiorMem]

\* restore_breakpoint that takes an address without an entry for a breakpoint over a zero byte
restore_breakpoint_unknown(mem_addr) ==
    LET bp == IF mem_addr \in DOMAIN breakpoints /\ breakpoints[mem_addr] # None
              THEN Unwrap(breakpoints[mem_addr])
              ELSE Breakpoint(TrapOpcode, 0)
    IN  IF inferior # None
        THEN IF Traceable(inferior) /\ write_byte_ok(mem_addr)
             THEN LET w == write_byte(InferiorMem, mem_addr, bp.orig_byte)
                  IN  [panic |-> FALSE, bp |-> Some(Breakpoint(bp.orig_byte, w.orig)), mem |-> w.mem]
             ELSE [panic |-> TRUE, bp |-> None, mem |-> InferiorMem]
        ELSE [panic |-> FALSE, bp |-> None, mem |-> InferiorMem]

\* Debugger::restore_breakpoint, with the same result shape
restore_breakpoint(mem_addr) ==
    IF mem_addr \in DOMAIN breakpoints /\ breakpoints[mem_addr] # None
    THEN LET bp == Unwrap(breakpoints[mem_addr])
         IN  IF inferior # None
             THEN IF Traceable(inferior) /\ write_byte_ok(mem_addr)
                  THEN LET w == write_byte(InferiorMem, mem_addr, bp.orig_byte)
                       IN  [panic |-> FALSE, bp |-> Some(Breakpoint(bp.orig_byte, w.orig)), mem |-> w.mem]
                  ELSE [panic |-> TRUE, bp |-> None, mem |-> InferiorMem]
             ELSE [panic |-> FALSE, bp |-> None, mem |-> InferiorMem]
    ELSE [panic |-> FALSE, bp |-> None, mem |-> InferiorMem]

\* HashMap::insert
MapInsert(m, k, v) == [x \in DOMAIN m \cup {k} |-> IF x = k THEN v ELSE m[x]]

----------------------------------------------------------------------------
(* Debugger::clear_inferior: Inferior::kill panics when PTRACE_KILL fails,   *)
(* otherwise the child is killed, the kill is reported and the handle is     *)
(* dropped.  The primed values of inferior, procs, out, trace and pc (nextPc *)
(* is where the caller goes on when nothing panics).                         *)
clear_inferior(o, t, nextInferior, nextPc) ==
    IF inferior = None
    THEN /\ inferior' = nextInferior
         /\ procs' = procs
         /\ out' = o
         /\ trace' = t
         /\ pc' = nextPc
    ELSE IF Traceable(inferior)
    THEN /\ inferior' = nextInferior
         /\ procs' = [procs EXCEPT ![Unwrap(inferior)] = DeadProc]
         /\ out' = Append(o, "killed running inferior")
         /\ trace' = Append(t, "kill")
         /\ pc' = nextPc
    ELSE /\ inferior' = inferior
         /\ procs' = procs
         /\ out' = o
         /\ trace' = Append(t, "kill:Err")
         /\ pc' = "panicked"

----------------------------------------------------------------------------
(* Debugger::go: resume the child and wait for it once.  ext is what reaches *)
(* the running target from outside the session.                              *)
ExtEvents == {"none", "SIGKILL", "SIGINT"}

\* The child between PTRACE_CONT and the return of waitpid: [ws: the status
\* waitpid returns ("none" when it does not return), proc: the child then,
\* cpu: its registers and the counts along its run].  A SIGKILL ends it; a
\* SIGINT stops it before it runs another instruction.
Resume(p, ext) ==
    LET cpu0 == [rip |-> p.rip, rcx |-> p.rcx, passes |-> hist.passes, origExec |-> hist.origExec]
        r == RunTarget(p.mem, cpu0, DOMAIN breakpoints, Fuel)
    IN  CASE ext = "SIGKILL" ->
               [ws |-> WaitStatus("Signaled", "SIGKILL", 0), proc |-> DeadProc, cpu |-> cpu0]
          [] ext = "SIGINT" ->
               [ws |-> WaitStatus("Stopped", "SIGINT", 0), proc |-> p, cpu |-> cpu0]
          [] ext = "none" /\ r.ev = "exited" ->
               [ws |-> WaitStatus("Exited", "none", 0), proc |-> DeadProc, cpu |-> r.cpu]
          [] ext = "none" /\ r.ev = "stopped" ->
               [ws |-> WaitStatus("Stopped", r.sig, 0),
                proc |-> [p EXCEPT !.rip = r.cpu.rip, !.rcx = r.cpu.rcx], cpu |-> r.cpu]
          [] OTHER ->
               [ws |-> NoWait.ws, proc |-> p, cpu |-> r.cpu]

Go(o, t, ext) ==
    LET pid == Unwrap(inferior)
        k == Resume(procs[pid], ext)
        w == wait(k.ws, k.proc)
        rip == w.st.val
        seen == [hist EXCEPT !.passes = k.cpu.passes, !.origExec = k.cpu.origExec]
    IN  IF ~Traceable(inferior)
        THEN \* ptrace::cont fails and Inferior::go_on panics
             /\ pc' = "panicked"
             /\ trace' = Append(t, "cont:Err")
             /\ out' = o
             /\ waited' = NoWait
             /\ UNCHANGED <<inferior, breakpoints, procs, hist>>
        ELSE IF k.ws.kind = "none"
        THEN \* the target never stops: waitpid does not return
             /\ pc' = "blocked"
             /\ trace' = t \o <<"cont", "wait">>
             /\ out' = o
             /\ waited' = NoWait
             /\ UNCHANGED <<inferior, breakpoints, procs, hist>>
        ELSE IF w.panic
        THEN /\ pc' = "panicked"
             /\ procs' = [procs EXCEPT ![pid] = k.proc]
             /\ trace' = t \o <<"cont", "wait">>
             /\ out' = o
             /\ waited' = [ws |-> k.ws, st |-> w.st]
             /\ UNCHANGED <<inferior, breakpoints, hist>>
        ELSE CASE w.st.kind = "Exited" ->
                    /\ pc' = "prompt"
                    /\ inferior' = None
                    /\ procs' = [procs EXCEPT ![pid] = k.proc]
                    /\ trace' = t \o <<"cont", "wait">>
                    /\ out' = Append(o, "child exited")
                    /\ waited' = [ws |-> k.ws, st |-> w.st]
                    /\ hist' = seen
                    /\ UNCHANGED breakpoints
               [] w.st.kind = "Stopped" ->
                    LET trap == w.st.sig = "SIGTRAP"
                        res == restore_breakpoint(rip - 1)
                        hit == trap /\ res.bp # None
                    IN  /\ pc' = IF trap /\ res.panic THEN "panicked" ELSE "prompt"
                        /\ procs' = [procs EXCEPT ![pid] =
                                        [k.proc EXCEPT !.mem = IF hit THEN res.mem ELSE @]]
                        /\ breakpoints' = IF hit THEN MapInsert(breakpoints, rip - 1, res.bp)
                                          ELSE breakpoints
                        /\ trace' = t \o <<"cont", "wait", "getregs">>
                                      \o (IF hit THEN <<"peek", "poke">>
                                          ELSE IF trap /\ res.panic THEN <<"peek:Err">>
                                          ELSE << >>)
                        /\ out' = Append(o, "child stopped")
                        /\ waited' = [ws |-> k.ws, st |-> w.st]
                        /\ hist' = IF trap /\ (rip - 1) \in DOMAIN breakpoints
                                   THEN [seen EXCEPT !.stops = Bump(@, rip - 1),
                                                     !.snap = IF hit THEN NoSnap ELSE @]
                                   ELSE seen
                        /\ UNCHANGED inferior
               [] OTHER ->
                    \* Signaled: no arm of go handles it, the loop calls go_on
                    \* again, on a child that is gone, and go_on panics
                    /\ pc' = "panicked"
                    /\ procs' = [procs EXCEPT ![pid] = k.proc]
                    /\ trace' = t \o <<"cont", "wait", "cont:Err">>
                    /\ out' = o
                    /\ waited' = [ws |-> k.ws, st |-> w.st]
                    /\ UNCHANGED <<inferior, breakpoints, hist>>

----------------------------------------------------------------------------
(* Inferior::print_backtrace.                                                *)

\* DwarfData of the target: main is 0..6 and foo is 8..9, one line to an address
InMain(a) == a >= 0 /\ a <= 6
InFoo(a) == a >= 8 /\ a <= 9
get_function_from_addr(a) ==
    IF InMain(a) THEN Some("main") ELSE IF InFoo(a) THEN Some("foo") ELSE None
get_line_from_addr(a) == IF InMain(a) \/ InFoo(a) THEN Some(10 + a) ELSE None

\* `as usize` of a word read from the child.  A value of 2^24 or more is kept
\* as HighAddr: no such address is mapped or known to the debugging information
HighAddr == 16777216
WordToAddr(w) ==
    IF \A i \in 3 .. (WordSize - 1) : w[i] = 0
    THEN w[0] + 256 * w[1] + 65536 * w[2]
    ELSE HighAddr

\* the locals of print_backtrace once getregs has returned: st is "loop" while
\* the loop runs, "ok" and "err" are the function's Ok(()) and Err; out is what
\* it printed (a frame is the name of its function), ips the instruction
\* pointers it looked up, reads the addresses it read in the child, lost the
\* instruction pointer of the message that replaces a frame, turns the turns
\* taken as BtWalk counts them
BtStart(regs) ==
    [fn |-> "print_backtrace", st |-> "loop", rip |-> regs.rip, rbp |-> regs.rbp,
     out |-> << >>, ips |-> << >>, reads |-> << >>, lost |-> None, turns |-> 0]

\* one turn of the loop with the frame pointer followed before the return address is read
bt_turn_fp_first(mem, w) ==
    LET ln == get_line_from_addr(w.rip)
        func == get_function_from_addr(w.rip)
        w1 == [w EXCEPT !.out = Append(@, Unwrap(func)), !.ips = Append(@, w.rip)]
        fp == WordToAddr(PeekWord(mem, w.rbp))
    IN  IF ln # None /\ func # None
        THEN IF Unwrap(func) = "main" THEN [w1 EXCEPT !.st = "ok"]
             ELSE IF ~Mapped(w.rbp) THEN [w1 EXCEPT !.st = "err", !.reads = Append(@, w.rbp)]
             ELSE IF ~Mapped(fp + WordSize)
             THEN [w1 EXCEPT !.st = "err", !.reads = @ \o <<w.rbp, fp + WordSize>>]
             ELSE [w1 EXCEPT !.rip = WordToAddr(PeekWord(mem, fp + WordSize)),
                             !.rbp = fp,
                             !.reads = @ \o <<w.rbp, fp + WordSize>>]
        ELSE [w EXCEPT !.st = "ok", !.out = Append(@, "couldn't find line or func"),
                       !.ips = Append(@, w.rip), !.lost = Some(w.rip)]

\* one turn of the loop that reads the caller's frame before it looks at the function's name
bt_turn_reads_first(mem, w) ==
    LET ln == get_line_from_addr(w.rip)
        func == get_function_from_addr(w.rip)
        w1 == [w EXCEPT !.out = Append(@, Unwrap(func)), !.ips = Append(@, w.rip)]
    IN  IF ln # None /\ func # None
        THEN IF ~Mapped(w.rbp + WordSize)
             THEN [w1 EXCEPT !.st = "err", !.reads = Append(@, w.rbp + WordSize)]
             ELSE [w1 EXCEPT !.st = IF Unwrap(func) = "main" THEN "ok" ELSE "loop",
                             !.rip = WordToAddr(PeekWord(mem, w.rbp + WordSize)),
                             !.rbp = WordToAddr(PeekWord(mem, w.rbp)),
                             !.reads = @ \o <<w.rbp + WordSize, w.rbp>>]
        ELSE [w EXCEPT !.st = "ok", !.out = Append(@, "couldn't find line or func"),
                       !.ips = Append(@, w.rip), !.lost = Some(w.rip)]

\* one turn of the loop
bt_turn(mem, w) ==
    LET ln == get_line_from_addr(w.rip)
        func == get_function_from_addr(w.rip)
        w1 == [w EXCEPT !.out = Append(@, Unwrap(func)), !.ips = Append(@, w.rip)]
    IN  IF ln # None /\ func # None
        THEN IF Unwrap(func) = "main" THEN [w1 EXCEPT !.st = "ok"]
             ELSE IF ~Mapped(w.rbp + WordSize)
             THEN [w1 EXCEPT !.st = "err", !.reads = Append(@, w.rbp + WordSize)]
             ELSE IF ~Mapped(w.rbp)
             THEN [w1 EXCEPT !.st = "err", !.reads = @ \o <<w.rbp + WordSize, w.rbp>>]
             ELSE [w1 EXCEPT !.rip = WordToAddr(PeekWord(mem, w.rbp + WordSize)),
                             !.rbp = WordToAddr(PeekWord(mem, w.rbp)),
                             !.reads = @ \o <<w.rbp + WordSize, w.rbp>>]
        ELSE [w EXCEPT !.st = "ok", !.out = Append(@, "couldn't find line or func"),
                       !.ips = Append(@, w.rip), !.lost = Some(w.rip)]

\* the trace requests of a walk: getregs, then one peek for each read, the
\* last of which failed when the walk returned Err
BtTrace(w) ==
    <<"getregs">> \o [i \in DOMAIN w.reads |->
                        IF w.st = "err" /\ i = Len(w.reads) THEN "peek:Err" ELSE "peek"]

\* the loop, followed for at most turns turns
RECURSIVE print_backtrace(_, _, _)
print_backtrace(mem, w, turns) ==
    IF w.st # "loop" \/ turns = 0 THEN w
    ELSE print_backtrace(mem, bt_turn(mem, w), turns - 1)

----------------------------------------------------------------------------
(* Address literals.  A literal is the sequence of its characters.           *)

\* char::to_digit(16): the value of a hexadecimal digit, -1 for any other character
HexVal(c) ==
    CASE c = "0" -> 0 [] c = "1" -> 1 [] c = "2" -> 2 [] c = "3" -> 3
      [] c = "4" -> 4 [] c = "5" -> 5 [] c = "6" -> 6 [] c = "7" -> 7
      [] c = "8" -> 8 [] c = "9" -> 9
      [] c \in {"a", "A"} -> 10 [] c \in {"b", "B"} -> 11 [] c \in {"c", "C"} -> 12
      [] c \in {"d", "D"} -> 13 [] c \in {"e", "E"} -> 14 [] c \in {"f", "F"} -> 15
      [] OTHER -> -1

\* the digit loop of usize::from_str_radix(_, 16): None at the first character
\* that is no digit (the literals here are too short to overflow a usize)
RECURSIVE FromDigits(_, _)
FromDigits(digits, acc) ==
    IF digits = << >> THEN Some(acc)
    ELSE IF HexVal(Head(digits)) < 0 THEN None
    ELSE FromDigits(Tail(digits), acc * 16 + HexVal(Head(digits)))

\* usize::from_str_radix(src, 16).ok(): empty input and a lone sign are errors,
\* a leading "+" is skipped, a leading "-" is no digit of an unsigned type
from_str_radix(src) ==
    IF src = << >> THEN None
    ELSE IF Len(src) = 1 /\ src[1] \in {"+", "-"} THEN None
    ELSE IF src[1] = "+" THEN FromDigits(Tail(src), 0)
    ELSE FromDigits(src, 0)

\* addr.to_lowercase().starts_with("0x")
HasPrefix(addr) == Len(addr) >= 2 /\ addr[1] = "0" /\ addr[2] \in {"x", "X"}

parse_address(addr) ==
    LET addr_without_0x == IF HasPrefix(addr) THEN SubSeq(addr, 3, Len(addr)) ELSE addr
    IN  from_str_radix(addr_without_0x)

\* the characters an operator types for address n, without a prefix
HexChar(d) == <<"0", "1", "2", "3", "4", "5", "6", "7", "8", "9", "a", "b", "c", "d", "e", "f">>[d + 1]
RECURSIVE ToHex(_)
ToHex(n) == IF n < 16 THEN <<HexChar(n)>> ELSE Append(ToHex(n \div 16), HexChar(n % 16))

\* literals that are not hexadecimal
BadLiterals == {<<"z", "z", "z">>, <<"0", "x">>}
BpLiterals == {ToHex(a) : a \in BpChoices} \cup {<<"0", "X">> \o ToHex(3)} \cup BadLiterals
\* the input lines of a breakpoint command
Lines == {<<"breakpoint", lit>> : lit \in BpLiterals}

\* DebuggerCommand::from_tokens on those lines: the command, None when the line
\* is no command; a breakpoint literal must be hexadecimal digits after an
\* optional 0x or 0X
IsHexLiteral(lit) ==
    LET body == IF HasPrefix(lit) THEN SubSeq(lit, 3, Len(lit)) ELSE lit
    IN  body # << >> /\ \A i \in 1..Len(body) : HexVal(body[i]) >= 0
from_tokens(tokens) ==
    IF tokens[1] = "breakpoint" /\ Len(tokens) = 2 /\ IsHexLiteral(tokens[2])
    THEN Some(<<"breakpoint", tokens[2]>>)
    ELSE None

----------------------------------------------------------------------------
(* The arms of Debugger::run's command loop.                                 *)

\* Run, Inferior::new returning Some: the child is spawned
CmdRunSpawned ==
    /\ pc = "prompt"
    /\ Len(procs) < MaxLaunches
    /\ procs' = Append(procs, SpawnedProc)
    /\ newInf' = Some(Len(procs) + 1)
    /\ pc' = "run_clear"
    /\ line' = <<"run">>
    /\ cmd' = <<"run">>
    /\ out' = << >>
    /\ waited' = NoWait
    /\ trace' = << >>
    /\ UNCHANGED <<inferior, breakpoints, pending, hist, call, pmap, proxy, list>>

\* Run, Inferior::new returning None
CmdRunFailed ==
    /\ pc = "prompt"
    /\ line' = <<"run">>
    /\ cmd' = <<"run">>
    /\ out' = <<"Error starting subprocess">>
    /\ waited' = NoWait
    /\ trace' = << >>
    /\ UNCHANGED <<pc, inferior, breakpoints, procs, newInf, pending, hist, call, pmap, proxy, list>>

\* Run that starts from an empty mapping
RunClear_forgets ==
    /\ pc = "run_clear"
    /\ clear_inferior(out, trace, newInf, "run_install")
    /\ newInf' = IF pc' = "panicked" THEN newInf ELSE None
    /\ breakpoints' = IF pc' = "panicked" THEN breakpoints ELSE << >>
    /\ pending' = IF pc' = "panicked" THEN pending ELSE { }
    /\ hist' = IF pc' = "panicked" THEN hist ELSE ZeroHist
    /\ UNCHANGED <<line, cmd, waited, call, pmap, proxy, list>>

\* Run: clear_inferior(), then self.inferior = Some(inferior)
RunClear ==
    /\ pc = "run_clear"
    /\ clear_inferior(out, trace, newInf, "run_install")
    /\ newInf' = IF pc' = "panicked" THEN newInf ELSE None
    /\ pending' = IF pc' = "panicked" THEN pending ELSE DOMAIN breakpoints
    /\ hist' = IF pc' = "panicked" THEN hist ELSE ZeroHist
    /\ UNCHANGED <<breakpoints, line, cmd, waited, call, pmap, proxy, list>>

\* Run: one turn of the loop over the keys of the mapping (HashMap order: any)
RunInstall ==
    /\ pc = "run_install"
    /\ \E addr \in pending :
        LET res == insert_breakpoint(addr)
        IN  /\ pending' = pending \ {addr}
            /\ trace' = trace \o (IF res.panic THEN <<"peek:Err">> ELSE <<"peek", "poke">>)
            /\ IF res.panic
               THEN /\ pc' = "panicked"
                    /\ UNCHANGED <<breakpoints, procs, hist>>
               ELSE /\ pc' = "run_install"
                    /\ breakpoints' = MapInsert(breakpoints, addr, res.bp)
                    /\ procs' = [procs EXCEPT ![Unwrap(inferior)].mem = res.mem]
                    /\ hist' = [hist EXCEPT !.snap = [addr |-> addr, mem |-> InferiorMem]]
    /\ UNCHANGED <<inferior, newInf, line, cmd, out, waited, call, pmap, proxy, list>>

\* Run: self.go() once the loop is over
RunGo ==
    /\ pc = "run_install"
    /\ pending = {}
    /\ \E ext \in ExtEvents : Go(out, trace, ext)
    /\ UNCHANGED <<newInf, pending, line, cmd, call, pmap, proxy, list>>

\* Continue whose None arm prints nothing (as the None arm of Backtrace does)
CmdContinue_silent ==
    /\ pc = "prompt"
    /\ line' = <<"continue">>
    /\ cmd' = <<"continue">>
    /\ IF inferior = None
       THEN /\ out' = << >>
            /\ waited' = NoWait
            /\ trace' = << >>
            /\ UNCHANGED <<pc, inferior, breakpoints, procs, hist>>
       ELSE \E ext \in ExtEvents : Go(<< >>, << >>, ext)
    /\ UNCHANGED <<newInf, pending, call, pmap, proxy, list>>

\* Continue
CmdContinue ==
    /\ pc = "prompt"
    /\ line' = <<"continue">>
    /\ cmd' = <<"continue">>
    /\ IF inferior = None
       THEN /\ out' = <<"Run the process first!">>
            /\ waited' = NoWait
            /\ trace' = << >>
            /\ UNCHANGED <<pc, inferior, breakpoints, procs, hist>>
       ELSE \E ext \in ExtEvents : Go(<< >>, << >>, ext)
    /\ UNCHANGED <<newInf, pending, call, pmap, proxy, list>>

\* Breakpoint(addr), from the unwrapped num_addr on
CmdBreakpoint(num_addr) ==
    /\ pc = "prompt"
    /\ LET res == insert_breakpoint(num_addr)
       IN  /\ out' = <<"Set breakpoint">>
           /\ trace' = IF inferior = None THEN << >>
                       ELSE IF res.panic THEN <<"peek:Err">> ELSE <<"peek", "poke">>
           /\ IF res.panic
              THEN /\ pc' = "panicked"
                   /\ UNCHANGED <<breakpoints, procs, hist>>
              ELSE /\ pc' = "prompt"
                   /\ breakpoints' = MapInsert(breakpoints, num_addr, res.bp)
                   /\ procs' = IF inferior = None THEN procs
                               ELSE [procs EXCEPT ![Unwrap(inferior)].mem = res.mem]
                   /\ hist' = IF inferior = None THEN hist
                              ELSE [hist EXCEPT !.snap = [addr |-> num_addr, mem |-> InferiorMem]]
    /\ cmd' = <<"breakpoint", num_addr>>
    /\ waited' = NoWait
    /\ UNCHANGED <<inferior, newInf, pending, call, pmap, proxy, list>>

\* Backtrace: nothing at all without a process; print_backtrace(..).unwrap() with one
CmdBacktrace ==
    /\ pc = "prompt"
    /\ line' = <<"backtrace">>
    /\ cmd' = <<"backtrace">>
    /\ waited' = NoWait
    /\ IF inferior = None
       THEN /\ out' = << >>
            /\ trace' = << >>
            /\ UNCHANGED pc
       ELSE IF ~Traceable(inferior)
       THEN /\ out' = << >>
            /\ trace' = <<"getregs:Err">>
            /\ pc' = "panicked"
       ELSE LET w == print_backtrace(InferiorMem, BtStart(procs[Unwrap(inferior)]), MaxFrames)
            IN  /\ out' = w.out
                /\ trace' = BtTrace(w)
                /\ pc' = CASE w.st = "ok" -> "prompt"
                            [] w.st = "err" -> "panicked"
                            [] OTHER -> "blocked"
    /\ UNCHANGED <<inferior, breakpoints, procs, newInf, pending, hist, call, pmap, proxy, list>>

\* get_next_command whose line must be a command (from_tokens(..).unwrap())
ReadLine_unwraps(tokens) ==
    /\ pc = "prompt"
    /\ line' = tokens
    /\ LET c == from_tokens(tokens)
           n == parse_address(Unwrap(c)[2])
       IN  IF c = None \/ n = None
           THEN /\ pc' = "panicked"
                /\ cmd' = <<"none">>
                /\ out' = << >>
                /\ trace' = << >>
                /\ waited' = NoWait
                /\ UNCHANGED <<inferior, breakpoints, procs, newInf, pending, hist, call, pmap, proxy, list>>
           ELSE CmdBreakpoint(Unwrap(n))

\* get_next_command on a line of Lines, and the arm its command selects: a line
\* that is no command is reported and the prompt comes again; the Breakpoint
\* arm unwraps parse_address
ReadLine(tokens) ==
    /\ pc = "prompt"
    /\ line' = tokens
    /\ LET c == from_tokens(tokens)
           n == parse_address(Unwrap(c)[2])
       IN  IF c = None
           THEN /\ cmd' = <<"none">>
                /\ out' = <<"Unrecognized command.">>
                /\ trace' = << >>
                /\ waited' = NoWait
                /\ UNCHANGED <<pc, inferior, breakpoints, procs, newInf, pending, hist, call, pmap, proxy, list>>
           ELSE IF n = None
           THEN /\ pc' = "panicked"
                /\ cmd' = <<"breakpoint", -1>>
                /\ out' = << >>
                /\ trace' = << >>
                /\ waited' = NoWait
                /\ UNCHANGED <<inferior, breakpoints, procs, newInf, pending, hist, call, pmap, proxy, list>>
           ELSE CmdBreakpoint(Unwrap(n))

\* Quit (also what end of input is turned into): clear_inferior(), return
CmdQuit ==
    /\ pc = "prompt"
    /\ clear_inferior(<< >>, << >>, None, "done")
    /\ line' = <<"quit">>
    /\ cmd' = <<"quit">>
    /\ waited' = NoWait
    /\ UNCHANGED <<breakpoints, newInf, pending, hist, call, pmap, proxy, list>>

\* The child, on its own: it reaches the stop the kernel makes at exec
ChildExecStop ==
    /\ pc \in {"run_clear", "run_install"}
    /\ \E pid \in DOMAIN procs :
        /\ procs[pid].alive
        /\ ~procs[pid].stopped
        /\ procs' = [procs EXCEPT ![pid].stopped = TRUE]
    /\ UNCHANGED <<pc, inferior, breakpoints, newInf, pending, line, cmd, out, waited, trace, hist, call, pmap, proxy, list>>

Next ==
    \/ CmdRunSpawned
    \/ CmdRunFailed
    \/ RunClear
    \/ RunInstall
    \/ RunGo
    \/ CmdContinue
    \/ CmdBacktrace
    \/ \E tokens \in Lines : ReadLine(tokens)
    \/ CmdQuit
    \/ ChildExecStop

Spec == Init /\ [][Next]_vars

----------------------------------------------------------------------------
(* Single functions of Inferior, each run on its own on a stopped child.  The *)
(* arguments are in call, the child is procs[1].                             *)

StoppedChild(mem, rip, rbp) ==
    [alive |-> TRUE, stopped |-> TRUE, mem |-> mem, rip |-> rip, rcx |-> 0, rbp |-> rbp]

\* everything but procs and call
InitAround ==
    /\ pc = "call"
    /\ inferior = Some(1)
    /\ breakpoints = << >>
    /\ newInf = None
    /\ pending = {}
    /\ line = << >>
    /\ cmd = <<"none">>
    /\ out = << >>
    /\ waited = NoWait
    /\ trace = << >>
    /\ hist = ZeroHist
    /\ pmap = NoCall
    /\ proxy = NoCall
    /\ list = NoCall

\* print_backtrace: the three stack words hold small addresses or a high one
HighWord == [i \in Digits |-> IF i = WordSize - 1 THEN 1 ELSE 0]
StackWords == {WordOfByte(0), WordOfByte(5), WordOfByte(9), WordOfByte(16), WordOfByte(24), HighWord}
StackMem(w) ==
    [a \in Addr |-> IF a >= 16 /\ a < 40 THEN w[(a - 16) \div WordSize][a % WordSize]
                    ELSE ProgramImage[a]]
BtRips == {1, 7, 9}
BtRbps == {0, 16, 24, 32}

InitBacktrace ==
    /\ InitAround
    /\ \E w \in [0 .. 2 -> StackWords], rip \in BtRips, rbp \in BtRbps :
          procs = <<StoppedChild(StackMem(w), rip, rbp)>>
    /\ call = [BtStart(DeadProc) EXCEPT !.st = "start"]

\* ptrace::getregs and the two registers taken from it
BtGetRegs ==
    /\ call.fn = "print_backtrace"
    /\ call.st = "start"
    /\ call' = BtStart(procs[1])
    /\ trace' = <<"getregs">>
    /\ UNCHANGED <<pc, inferior, breakpoints, procs, newInf, pending, line, cmd, out, waited, hist, pmap, proxy, list>>

\* one turn of the loop; the caller unwraps what the function returns
BtTurn ==
    /\ call.fn = "print_backtrace"
    /\ call.st = "loop"
    /\ Len(call.ips) < MaxFrames
    /\ call' = bt_turn(procs[1].mem, call)
    /\ out' = call'.out
    /\ trace' = BtTrace(call')
    /\ pc' = CASE call'.st = "ok" -> "prompt"
                [] call'.st = "err" -> "panicked"
                [] OTHER -> pc
    /\ UNCHANGED <<inferior, breakpoints, procs, newInf, pending, line, cmd, waited, hist, pmap, proxy, list>>

NextBacktrace == BtGetRegs \/ BtTurn
SpecBacktrace == InitBacktrace /\ [][NextBacktrace]_vars

\* The walk for as long as the loop runs.  Of what it printed and read only the
\* last MaxFrames entries are kept, and the turns are counted modulo MaxFrames;
\* rip and rbp, the locals the loop goes by, are kept whole.  The thread in the
\* loop is never held up, so the next turn is taken whenever there is one.
LastN(sq, n) == IF Len(sq) <= n THEN sq ELSE SubSeq(sq, Len(sq) - n + 1, Len(sq))
BtWalk ==
    /\ call.fn = "print_backtrace"
    /\ call.st = "loop"
    /\ LET w == bt_turn(procs[1].mem, call)
       IN  call' = [w EXCEPT !.out = LastN(@, MaxFrames), !.ips = LastN(@, MaxFrames),
                             !.reads = LastN(@, MaxFrames),
                             !.turns = (@ + 1) % MaxFrames]
    /\ out' = call'.out
    /\ trace' = BtTrace(call')
    /\ pc' = CASE call'.st = "ok" -> "prompt"
                [] call'.st = "err" -> "panicked"
                [] OTHER -> pc
    /\ UNCHANGED <<inferior, breakpoints, procs, newInf, pending, line, cmd, waited, hist, pmap, proxy, list>>

NextBacktraceFair == BtGetRegs \/ BtWalk
SpecBacktraceFair ==
    InitBacktrace /\ [][NextBacktraceFair]_vars /\ WF_vars(NextBacktraceFair)

\* write_byte: every address of the child and one past its memory
WbMems == {ProgramImage, [a \in Addr |-> 255], [a \in Addr |-> a + 1]}
WbVals == {0, 1, TrapOpcode, 255}

InitWriteByte ==
    /\ InitAround
    /\ \E mem \in WbMems : procs = <<StoppedChild(mem, 0, 0)>>
    /\ \E addr \in 0 .. MemSize, val \in WbVals :
          call = [fn |-> "write_byte", st |-> "start", addr |-> addr, val |-> val, ret |-> 0]

WriteByte ==
    /\ call.fn = "write_byte"
    /\ call.st = "start"
    /\ IF Traceable(inferior) /\ write_byte_ok(call.addr)
       THEN LET w == write_byte(procs[1].mem, call.addr, call.val)
            IN  /\ procs' = [procs EXCEPT ![1].mem = w.mem]
                /\ call' = [call EXCEPT !.st = "ok", !.ret = w.orig]
                /\ trace' = <<"peek", "poke">>
       ELSE /\ call' = [call EXCEPT !.st = "err"]
            /\ trace' = <<"peek:Err">>
            /\ UNCHANGED procs
    /\ UNCHANGED <<pc, inferior, breakpoints, newInf, pending, line, cmd, out, waited, hist, pmap, proxy, list>>

NextWriteByte == WriteByte
SpecWriteByte == InitWriteByte /\ [][NextWriteByte]_vars

\* wait: every variant of nix's WaitStatus
Signals == {"SIGTRAP", "SIGINT", "SIGKILL", "SIGSEGV"}
WaitStatuses ==
    {WaitStatus("Exited", "none", c) : c \in 0 .. 3}
    \cup {WaitStatus(k, sig, 0) : k \in {"Signaled", "Stopped", "PtraceEvent"}, sig \in Signals}
    \cup {WaitStatus(k, "none", 0) : k \in {"PtraceSyscall", "Continued", "StillAlive"}}

InitWait ==
    /\ InitAround
    /\ \E rip \in Addr : procs = <<StoppedChild(ProgramImage, rip, 0)>>
    /\ \E ws \in WaitStatuses : call = [fn |-> "wait", st |-> "start", ws |-> ws]

Wait ==
    /\ call.fn = "wait"
    /\ call.st = "start"
    /\ LET w == wait(call.ws, procs[1])
       IN  /\ call' = [call EXCEPT !.st = IF w.panic THEN "panic" ELSE "ok"]
           /\ waited' = [ws |-> call.ws, st |-> w.st]
           /\ pc' = IF w.panic THEN "panicked" ELSE pc
           /\ trace' = IF call.ws.kind = "Stopped" THEN <<"wait", "getregs">> ELSE <<"wait">>
    /\ UNCHANGED <<inferior, breakpoints, procs, newInf, pending, line, cmd, out, hist, pmap, proxy, list>>

NextWait == Wait
SpecWait == InitWait /\ [][NextWait]_vars

\* the session of a debugger that is not in use
InitIdle ==
    /\ pc = "prompt"
    /\ inferior = None
    /\ breakpoints = << >>
    /\ procs = << >>
    /\ newInf = None
    /\ pending = {}
    /\ line = << >>
    /\ cmd = <<"none">>
    /\ out = << >>
    /\ waited = NoWait
    /\ trace = << >>
    /\ hist = ZeroHist

\* parse_address: every literal of up to MaxLitLen of these characters
LitChars == {"0", "1", "a", "F", "x", "X", "+", "-", "g"}
Literals == UNION {[1 .. n -> LitChars] : n \in 0 .. MaxLitLen}

InitParseAddress ==
    /\ InitIdle
    /\ pmap = NoCall
    /\ proxy = NoCall
    /\ list = NoCall
    /\ \E addr \in Literals : call = [fn |-> "parse_address", st |-> "start", addr |-> addr, ret |-> None]

ParseAddress ==
    /\ call.fn = "parse_address"
    /\ call.st = "start"
    /\ call' = [call EXCEPT !.st = "done", !.ret = parse_address(call.addr)]
    /\ UNCHANGED <<pc, inferior, breakpoints, procs, newInf, pending, line, cmd, out, waited, trace, hist, pmap, proxy, list>>

NextParseAddress == ParseAddress
SpecParseAddress == InitParseAddress /\ [][NextParseAddress]_vars

----------------------------------------------------------------------------
(* parallel_map (week6/parallel_map).  Channel 1 carries the numbered input  *)
(* to the workers, channel 2 their numbered results to the caller.  Its only *)
(* sender is dropped before a worker exists, so a worker that finds channel  *)
(* 1 empty finds it disconnected.  The caller is at "setup", "spawn",        *)
(* "join", "collect", "returned" or "panicked"; a worker is at "select",     *)
(* "compute" (it holds item) or "done".                                      *)

\* the closure of the test: the square of its argument
F(x) == x * x
\* ParVal { num, i }
ParVal(num, i) == [num |-> num, i |-> i]
InputVals == {2, 3}
InputVecs == UNION {[1 .. n -> InputVals] : n \in 0 .. MaxItems}
Workers == DOMAIN pmap.workers

InitParallelMap ==
    /\ InitIdle
    /\ call = NoCall
    /\ proxy = NoCall
    /\ list = NoCall
    /\ \E input_vec \in InputVecs, num_threads \in 0 .. MaxThreads :
          pmap = [fn |-> "parallel_map", main |-> "setup",
                  input_vec |-> input_vec, num_threads |-> num_threads,
                  output_vec |-> << >>, r1 |-> << >>, r2 |-> << >>,
                  workers |-> << >>, joined |-> 0, got |-> << >>]

PmapStep(next) ==
    /\ pmap.fn = "parallel_map"
    /\ pmap' = next
    /\ UNCHANGED <<pc, inferior, breakpoints, procs, newInf, pending, line, cmd, out, waited, trace, hist, call, proxy, list>>

\* the vector of defaults, the sends of the whole input, drop(s1), channel 2
Setup ==
    /\ pmap.main = "setup"
    /\ PmapStep([pmap EXCEPT
          !.main = "spawn",
          !.output_vec = [i \in DOMAIN pmap.input_vec |-> 0],
          !.r1 = [i \in DOMAIN pmap.input_vec |-> ParVal(pmap.input_vec[i], i - 1)]])

\* thread::spawn of the next worker; after the last one the caller joins
Spawn ==
    /\ pmap.main = "spawn"
    /\ IF Len(pmap.workers) < pmap.num_threads
       THEN PmapStep([pmap EXCEPT !.workers = Append(@, [at |-> "select", item |-> None])])
       ELSE PmapStep([pmap EXCEPT !.main = "join"])

\* select!: a message of channel 1 is ready
WorkerRecv(t) ==
    /\ pmap.workers[t].at = "select"
    /\ pmap.r1 # << >>
    /\ PmapStep([pmap EXCEPT !.r1 = Tail(@),
                             !.workers[t] = [at |-> "compute", item |-> Some(Head(pmap.r1))]])

\* select!: channel 1 is empty and disconnected, recv gives Err, the loop breaks
WorkerDisconnected(t) ==
    /\ pmap.workers[t].at = "select"
    /\ pmap.r1 = << >>
    /\ PmapStep([pmap EXCEPT !.workers[t].at = "done"])

\* select!: the timeout channel is ready, the loop breaks
WorkerTimeout(t) ==
    /\ pmap.workers[t].at = "select"
    /\ PmapStep([pmap EXCEPT !.workers[t].at = "done"])

\* f(p.num) and the send of the result on channel 2
WorkerSend(t) ==
    /\ pmap.workers[t].at = "compute"
    /\ LET p == Unwrap(pmap.workers[t].item)
       IN  PmapStep([pmap EXCEPT !.r2 = Append(@, ParVal(F(p.num), p.i)),
                                 !.workers[t] = [at |-> "select", item |-> None]])

\* join of the next thread; after the last one drop(r1), drop(s2)
Join ==
    /\ pmap.main = "join"
    /\ IF pmap.joined < Len(pmap.workers)
       THEN /\ pmap.workers[pmap.joined + 1].at = "done"
            /\ PmapStep([pmap EXCEPT !.joined = @ + 1])
       ELSE PmapStep([pmap EXCEPT !.main = "collect"])

\* the collecting loop with each result stored where it arrived
Collect_as_arrived ==
    /\ pmap.main = "collect"
    /\ IF Len(pmap.got) = Len(pmap.input_vec)
       THEN PmapStep([pmap EXCEPT !.main = "returned"])
       ELSE IF pmap.r2 = << >>
       THEN PmapStep([pmap EXCEPT !.main = "panicked"])
       ELSE LET p == Head(pmap.r2)
            IN  PmapStep([pmap EXCEPT !.r2 = Tail(@),
                                      !.output_vec[Len(pmap.got) + 1] = p.num,
                                      !.got = Append(@, p.i)])

\* one turn of the collecting loop: r2.recv() is Err, and expect panics, when
\* channel 2 is empty (every sender is dropped by now); after input_vec.len()
\* turns output_vec is returned
Collect ==
    /\ pmap.main = "collect"
    /\ IF Len(pmap.got) = Len(pmap.input_vec)
       THEN PmapStep([pmap EXCEPT !.main = "returned"])
       ELSE IF pmap.r2 = << >>
       THEN PmapStep([pmap EXCEPT !.main = "panicked"])
       ELSE LET p == Head(pmap.r2)
            IN  PmapStep([pmap EXCEPT !.r2 = Tail(@),
                                      !.output_vec[p.i + 1] = p.num,
                                      !.got = Append(@, p.i)])

NextParallelMap ==
    \/ Setup
    \/ Spawn
    \/ \E t \in Workers : WorkerRecv(t)
    \/ \E t \in Workers : WorkerDisconnected(t)
    \/ \E t \in Workers : WorkerTimeout(t)
    \/ \E t \in Workers : WorkerSend(t)
    \/ Join
    \/ Collect
SpecParallelMap == InitParallelMap /\ [][NextParallelMap]_vars

----------------------------------------------------------------------------
(* balancebeam (proj-2): the rate limiter.  proxy holds the option           *)
(* max_requests_per_minute, ProxyState.client_addresses, a clock of seconds, *)
(* and per client the times of the requests passed on to an upstream and the *)
(* number answered 429.                                                      *)

\* Duration::from_secs(60)
one_minute == 60
Clients == {"10.0.0.1", "10.0.0.2"}
\* the clock is read at half minutes
Elapses == {one_minute \div 2}
UpstreamRpm(count, instant) == [count |-> count, instant |-> instant]

\* rate_limit_client at time now on the entry of the client (None when it has
\* none): the Result and the entry left in the map
rate_limit_client(entry, now, max_requests_per_minute) ==
    LET found == IF entry = None THEN UpstreamRpm(0, now) ELSE Unwrap(entry)
        rpm == [found EXCEPT !.count = @ + 1]
    IN  IF rpm.count > max_requests_per_minute /\ now - rpm.instant < one_minute
        THEN [res |-> "Err", rpm |-> rpm]
        ELSE IF now - rpm.instant >= one_minute
        THEN [res |-> "Ok", rpm |-> UpstreamRpm(1, now)]
        ELSE [res |-> "Ok", rpm |-> rpm]

InitRateLimit ==
    /\ InitIdle
    /\ call = NoCall
    /\ pmap = NoCall
    /\ list = NoCall
    /\ \E m \in 0 .. MaxRpm :
          proxy = [fn |-> "rate_limit", max_requests_per_minute |-> m, clock |-> 0,
                   client_addresses |-> [c \in Clients |-> None],
                   forwarded |-> [c \in Clients |-> << >>],
                   rejected |-> [c \in Clients |-> 0]]

ProxyStep(next) ==
    /\ proxy' = next
    /\ UNCHANGED <<pc, inferior, breakpoints, procs, newInf, pending, line, cmd, out, waited, trace, hist, call, pmap, list>>

\* time passes
Elapse(d) ==
    /\ proxy.fn = "rate_limit"
    /\ proxy.clock + d <= MaxClock
    /\ ProxyStep([proxy EXCEPT !.clock = @ + d])

Requests(c) == Len(proxy.forwarded[c]) + proxy.rejected[c]

\* handle_connection on a request read from client_ip: 429 and return when
\* the limit is on and rate_limit_client is Err, else the request goes upstream
HandleRequest(client_ip) ==
    /\ proxy.fn = "rate_limit"
    /\ Requests(client_ip) < MaxRequests
    /\ IF proxy.max_requests_per_minute > 0
       THEN LET r == rate_limit_client(proxy.client_addresses[client_ip], proxy.clock,
                                       proxy.max_requests_per_minute)
            IN  IF r.res = "Err"
                THEN ProxyStep([proxy EXCEPT !.client_addresses[client_ip] = Some(r.rpm),
                                             !.rejected[client_ip] = @ + 1])
                ELSE ProxyStep([proxy EXCEPT !.client_addresses[client_ip] = Some(r.rpm),
                                             !.forwarded[client_ip] = Append(@, proxy.clock)])
       ELSE ProxyStep([proxy EXCEPT !.forwarded[client_ip] = Append(@, proxy.clock)])

NextRateLimit ==
    \/ \E d \in Elapses : Elapse(d)
    \/ \E client_ip \in Clients : HandleRequest(client_ip)
SpecRateLimit == InitRateLimit /\ [][NextRateLimit]_vars

----------------------------------------------------------------------------
(* balancebeam: the choice of an upstream.  proxy holds                      *)
(* ProxyState.upstream_addresses (is_dead of each upstream), what each       *)
(* upstream host does at the moment, the tasks in connect_to_upstream and    *)
(* the task of the active health check.  A task is at "idle" (no connection  *)
(* accepted yet), "check", "select", "connect", "mark", or has returned:     *)
(* "ok", "err".  The health check is at "delay" or, holding the write lock   *)
(* on upstream_addresses, in a "round" before upstream idx; answers is what  *)
(* the upstreams answered in the latest round.                               *)

\* what a host does: it answers 200 or another status, accepts the connection
\* and breaks it before a response is read, or refuses the connection
HostKinds == {"200", "500", "read_error", "refused"}
Upstreams == DOMAIN proxy.upstream_addresses
Tasks == DOMAIN proxy.tasks
NoAnswers == [i \in Upstreams |-> "none"]
\* RwLock: no reader or writer gets the lock while the health check holds it
LockFree == proxy.hc.at = "delay"

InitUpstreams ==
    /\ InitIdle
    /\ call = NoCall
    /\ pmap = NoCall
    /\ list = NoCall
    /\ \E n \in 1 .. MaxUpstreams :
        \E hosts \in [1 .. n -> HostKinds] :
          proxy = [fn |-> "upstreams",
                   upstream_addresses |-> [i \in 1 .. n |-> [is_dead |-> FALSE]],
                   hosts |-> hosts, changes |-> 0,
                   tasks |-> [t \in 1 .. MaxTasks |-> [at |-> "idle", idx |-> 0, picked_dead |-> FALSE]],
                   hc |-> [at |-> "delay", idx |-> 1, answers |-> [i \in 1 .. n |-> "none"]]]

UpstreamStep(next) == proxy.fn = "upstreams" /\ ProxyStep(next)

\* an upstream host starts to behave otherwise
HostChange(i, kind) ==
    /\ proxy.fn = "upstreams"
    /\ proxy.changes < MaxHostChanges
    /\ proxy.hosts[i] # kind
    /\ UpstreamStep([proxy EXCEPT !.hosts[i] = kind, !.changes = @ + 1])

\* main accepts a connection and spawns handle_connection, which calls
\* connect_to_upstream
Accept(t) ==
    /\ proxy.fn = "upstreams"
    /\ proxy.tasks[t].at = "idle"
    /\ UpstreamStep([proxy EXCEPT !.tasks[t].at = "check"])

\* the head of the outer loop: Err when no upstream is marked alive
TaskCheck(t) ==
    /\ proxy.fn = "upstreams"
    /\ proxy.tasks[t].at = "check"
    /\ LockFree
    /\ IF \A i \in Upstreams : proxy.upstream_addresses[i].is_dead
       THEN UpstreamStep([proxy EXCEPT !.tasks[t].at = "err"])
       ELSE UpstreamStep([proxy EXCEPT !.tasks[t].at = "select"])

\* one turn of the inner loop: a random index, kept when its upstream is not
\* marked dead, and another turn when it is
TaskSelect(t, upstream_idx) ==
    /\ proxy.fn = "upstreams"
    /\ proxy.tasks[t].at = "select"
    /\ LockFree
    /\ IF ~proxy.upstream_addresses[upstream_idx].is_dead
       THEN UpstreamStep([proxy EXCEPT !.tasks[t] =
                [at |-> "connect", idx |-> upstream_idx,
                 picked_dead |-> proxy.upstream_addresses[upstream_idx].is_dead]])
       ELSE UpstreamStep(proxy)

\* TcpStream::connect: Ok returns the stream, Err goes on to mark the upstream
TaskConnect(t) ==
    /\ proxy.fn = "upstreams"
    /\ proxy.tasks[t].at = "connect"
    /\ IF proxy.hosts[proxy.tasks[t].idx] = "refused"
       THEN UpstreamStep([proxy EXCEPT !.tasks[t].at = "mark"])
       ELSE UpstreamStep([proxy EXCEPT !.tasks[t].at = "ok"])

\* the Err arm: is_dead = true under the write lock, then the outer loop again
TaskMark(t) ==
    /\ proxy.fn = "upstreams"
    /\ proxy.tasks[t].at = "mark"
    /\ LockFree
    /\ UpstreamStep([proxy EXCEPT !.upstream_addresses[proxy.tasks[t].idx].is_dead = TRUE,
                                  !.tasks[t].at = "check"])

\* active_health_check: the delay is over and the write lock is taken
HcStart ==
    /\ proxy.fn = "upstreams"
    /\ proxy.hc.at = "delay"
    /\ UpstreamStep([proxy EXCEPT !.hc = [at |-> "round", idx |-> 1, answers |-> NoAnswers]])

\* active_health_check: the turn of the for loop for upstream idx.  A refused
\* connection is `continue`; else is_dead is false on a 200 and true otherwise.
\* After the last turn the lock is dropped and the delay starts again.
HcProbe ==
    /\ proxy.fn = "upstreams"
    /\ proxy.hc.at = "round"
    /\ LET idx == proxy.hc.idx
           kind == proxy.hosts[idx]
           last == idx = Len(proxy.upstream_addresses)
       IN  UpstreamStep([proxy EXCEPT
               !.upstream_addresses[idx].is_dead = IF kind = "refused" THEN @ ELSE kind # "200",
               !.hc = [at |-> IF last THEN "delay" ELSE "round",
                       idx |-> IF last THEN 1 ELSE idx + 1,
                       answers |-> [proxy.hc.answers EXCEPT ![idx] = kind]]])

NextUpstreams ==
    \/ \E i \in Upstreams, kind \in HostKinds : HostChange(i, kind)
    \/ \E t \in Tasks : Accept(t)
    \/ \E t \in Tasks : TaskCheck(t)
    \/ \E t \in Tasks, upstream_idx \in Upstreams : TaskSelect(t, upstream_idx)
    \/ \E t \in Tasks : TaskConnect(t)
    \/ \E t \in Tasks : TaskMark(t)
    \/ HcStart
    \/ HcProbe
SpecUpstreams == InitUpstreams /\ [][NextUpstreams]_vars

\* The tokio runtime polls every spawned task that can go on, the lock serves
\* its waiters in turn, and the random index falls on every upstream again
\* and again; hosts change and connections arrive as they please.
SpecUpstreamsFair ==
    /\ SpecUpstreams
    /\ \A t \in 1 .. MaxTasks :
          /\ SF_vars(TaskCheck(t))
          /\ SF_vars(\E upstream_idx \in Upstreams : TaskSelect(t, upstream_idx))
          /\ WF_vars(TaskConnect(t))
          /\ SF_vars(TaskMark(t))
    /\ WF_vars(HcStart)
    /\ WF_vars(HcProbe)

----------------------------------------------------------------------------
(* LinkedList (week3/linked_list; week2/practice/ll.rs is the same list of   *)
(* u32 with push and pop for push_front and pop_front).  A node is a record  *)
(* whose next is None or Some(node): a Box owns what it points to.  list     *)
(* holds the list l, where its owner is ("owned" while it calls the methods, *)
(* "iterating" once a for loop has taken the list by value, "dropped" when   *)
(* the loop is over), the method called last (op) and what it returned       *)
(* (ret), the values next() has yielded, and for the properties the values   *)
(* pushed and not popped since (log, oldest first) and the values the list   *)
(* was to yield when the loop took it (from).                                *)

Node(value, next) == [value |-> value, next |-> next]
\* LinkedList::new
NewList == [head |-> None, size |-> 0]
get_size(l) == l.size
is_empty(l) == get_size(l) = 0

\* push_front with the new node linked in behind the head
push_front_behind_head(l, value) ==
    IF l.head = None
    THEN [head |-> Some(Node(value, None)), size |-> l.size + 1]
    ELSE [head |-> Some(Node(Unwrap(l.head).value, Some(Node(value, Unwrap(l.head).next)))),
          size |-> l.size + 1]

push_front(l, value) ==
    [head |-> Some(Node(value, l.head)), size |-> l.size + 1]

\* pop_front with the size counted down before the head is looked at
pop_front_counts_first(l) ==
    IF l.head = None
    THEN [l |-> [l EXCEPT !.size = @ - 1], ret |-> None]
    ELSE [l |-> [head |-> Unwrap(l.head).next, size |-> l.size - 1],
          ret |-> Some(Unwrap(l.head).value)]

\* pop_front: the list it leaves and what it returns; `?` returns None from
\* an empty list before the size is touched
pop_front(l) ==
    IF l.head = None
    THEN [l |-> l, ret |-> None]
    ELSE [l |-> [head |-> Unwrap(l.head).next, size |-> l.size - 1],
          ret |-> Some(Unwrap(l.head).value)]

ListVals == {11, 21, 22}

InitLinkedList ==
    /\ InitIdle
    /\ call = NoCall
    /\ pmap = NoCall
    /\ proxy = NoCall
    /\ list = [fn |-> "linked_list", at |-> "owned", l |-> NewList, op |-> "new",
               ret |-> None, yielded |-> << >>, log |-> << >>, from |-> << >>]

ListStep(next) ==
    /\ list.fn = "linked_list"
    /\ list' = next
    /\ UNCHANGED <<pc, inferior, breakpoints, procs, newInf, pending, line, cmd, out, waited, trace, hist, call, pmap, proxy>>

Reverse(sq) == [i \in 1 .. Len(sq) |-> sq[Len(sq) + 1 - i]]
ButLast(sq) == IF sq = << >> THEN sq ELSE SubSeq(sq, 1, Len(sq) - 1)

PushFront(value) ==
    /\ list.at = "owned"
    /\ Len(list.log) < MaxNodes
    /\ ListStep([list EXCEPT !.l = push_front(list.l, value), !.op = "push_front",
                             !.ret = None, !.log = Append(@, value)])

PopFront ==
    /\ list.at = "owned"
    /\ LET r == pop_front(list.l)
       IN  ListStep([list EXCEPT !.l = r.l, !.op = "pop_front", !.ret = r.ret,
                                 !.log = ButLast(@)])

\* `for val in list`: the loop takes the list by value
IntoIter ==
    /\ list.at = "owned"
    /\ ListStep([list EXCEPT !.at = "iterating", !.op = "into_iter", !.ret = None,
                             !.from = Reverse(list.log)])

\* Iterator::next of the loop, which is pop_front; on None the loop is over
\* and the list is dropped
IterNext ==
    /\ list.at = "iterating"
    /\ LET r == pop_front(list.l)
       IN  ListStep([list EXCEPT !.l = r.l, !.op = "next", !.ret = r.ret,
                                 !.log = ButLast(@),
                                 !.yielded = IF r.ret = None THEN @ ELSE Append(@, Unwrap(r.ret)),
                                 !.at = IF r.ret = None THEN "dropped" ELSE @])

NextLinkedList ==
    \/ \E value \in ListVals : PushFront(value)
    \/ PopFront
    \/ IntoIter
    \/ IterNext
SpecLinkedList == InitLinkedList /\ [][NextLinkedList]_vars

----------------------------------------------------------------------------
(* Properties.                                                               *)

AtPrompt == pc = "prompt"
Live == inferior # None
Registered == DOMAIN breakpoints
\* the entry for a records a trap written and not restored since
Installed(a) ==
    /\ a \in Registered /\ a \in Addr
    /\ breakpoints[a] # None
    /\ Unwrap(breakpoints[a]).cur_byte = TrapOpcode
    /\ Live /\ InferiorMem[a] = TrapOpcode
\* the target is stopped just behind the trap at a, not resumed since (the
\* program stops nowhere else with its instruction pointer at a + 1)
StoppedBehind(a) == Live /\ procs[Unwrap(inferior)].rip = a + 1

\* C1: every pass of the target over a registered breakpoint address executes
\* the program's own instruction there exactly once: back at the prompt, the
\* passes over a and the executions of the original instruction at a agree,
\* but for the one pass the target is stopped in, and once the target has run
\* on, the trap is back at a.
C1_OriginalRunsOncePerPass ==
    AtPrompt =>
        \A a \in Registered \cap Addr :
            /\ hist.passes[a] - hist.origExec[a] <= (IF StoppedBehind(a) THEN 1 ELSE 0)
            /\ (Live /\ ~StoppedBehind(a)) => InferiorMem[a] = TrapOpcode

\* C2: the debugger reports one stop for every pass of the target over a
\* registered breakpoint address: N passes, N stops.
C2_OneStopPerPass ==
    AtPrompt => \A a \in Registered : hist.stops[a] = hist.passes[a]

\* C3: a breakpoint command for an address whose trap is already installed in
\* the live process leaves the recorded original byte as it was (the second
\* install is refused or a no-op).
C3_DuplicateInstallKeepsOriginal ==
    [][\A a \in BpChoices :
          (AtPrompt /\ Installed(a) /\ cmd' = <<"breakpoint", a>> /\ pc' = "prompt")
              => /\ a \in DOMAIN breakpoints'
                 /\ breakpoints'[a] # None
                 /\ Unwrap(breakpoints'[a]).orig_byte = Unwrap(breakpoints[a]).orig_byte]_vars

\* the step restores the breakpoint at a: a reported trap stop at a whose entry holds a Breakpoint
RestoreStep(a) ==
    /\ Live /\ inferior' = inferior
    /\ a \in Registered /\ breakpoints[a] # None
    /\ hist'.stops[a] = hist.stops[a] + 1

\* the memory after insert_breakpoint(a) has patched mem and restore_breakpoint(a)
\* has written back the orig_byte that install recorded
InstallThenRestore(mem, a) ==
    LET installed == write_byte(mem, a, TrapOpcode)
    IN  write_byte(installed.mem, a, installed.orig).mem

\* C4: installing a breakpoint at a and then restoring it leaves every byte of
\* the target's memory, the byte at a included, as it was before the install:
\* in every restore the debugger performs right after the install at the same
\* address, and for every mapped address of every live stopped process.
C4_InstallRestoreRoundTrip ==
    /\ [][\A a \in BpChoices :
            (RestoreStep(a) /\ hist.snap.addr = a)
                => procs'[Unwrap(inferior)].mem = hist.snap.mem]_vars
    /\ []((AtPrompt /\ Live) =>
            \A a \in Addr : InstallThenRestore(InferiorMem, a) = InferiorMem)

\* a restore has followed the install at 2 and the memory is the program's again
C4_Witness ==
    /\ AtPrompt /\ Live
    /\ hist.stops[2] = 1
    /\ 2 \in Registered
    /\ breakpoints[2] = Some(Breakpoint(ProgramImage[2], TrapOpcode))
    /\ InferiorMem = ProgramImage

RunSucceeded == AtPrompt /\ cmd = <<"run">> /\ out # <<"Error starting subprocess">>

\* C5: after a successful run, every registered address holds the trap opcode
\* in the new process and its entry records the program's byte at that address.
C5_RunLeavesAllPatched ==
    (RunSucceeded /\ Live) =>
        \A a \in Registered :
            /\ a \in Addr
            /\ InferiorMem[a] = TrapOpcode
            /\ breakpoints[a] # None
            /\ Unwrap(breakpoints[a]).orig_byte = ProgramImage[a]

\* C6: at most one launched child is alive at any point of the session.
C6_AtMostOneChildAlive == Cardinality(AliveChildren) <= 1

\* C7: when the command loop has ended, by quit or otherwise, no launched
\* child is alive.
C7_NoChildOutlivesSession == pc \in {"done", "panicked"} => AliveChildren = {}

\* C8: once wait has observed the target gone (exited, killed or signaled),
\* the outcome is reported, the handle is None and the session is at the
\* prompt with no process.
C8_GoneTargetLeavesIdle ==
    waited.st.kind \in {"Exited", "Killed", "Signaled"} =>
        /\ AtPrompt
        /\ inferior = None
        /\ out # << >>
        /\ out[Len(out)] \in {"child exited", "child killed", "child signaled"}

\* C9: continue with no process prints the message, leaves the mapping and the
\* (absent) process alone, stays at the prompt and issues no trace request.
C9_ContinueWhenIdle ==
    [][(AtPrompt /\ inferior = None /\ cmd' = <<"continue">>)
          => /\ out' = <<"Run the process first!">>
             /\ breakpoints' = breakpoints
             /\ inferior' = None
             /\ procs' = procs
             /\ pc' = "prompt"
             /\ trace' = << >>]_vars

\* a continue was answered with the message while breakpoints were registered
C9_Witness ==
    /\ AtPrompt /\ inferior = None
    /\ cmd = <<"continue">>
    /\ out = <<"Run the process first!">>
    /\ Registered # {}

\* C10: a run whose launch failed leaves the session at the prompt with no process.
C10_LaunchFailureLeavesIdle ==
    (cmd = <<"run">> /\ out = <<"Error starting subprocess">>) => (AtPrompt /\ inferior = None)

\* a trace request of the current command failed
TraceFailed == \E i \in DOMAIN trace : trace[i] \in {"cont:Err", "kill:Err", "peek:Err", "getregs:Err"}

\* C11: when a trace request (continue, wait, kill, peek, poke) fails during a
\* command, the command is abandoned with a report and the debugger goes on: it
\* has not terminated and something was printed.
C11_TraceFailureAbortsCommandOnly ==
    TraceFailed => (pc # "panicked" /\ out # << >>)

\* a breakpoint line is being read at the prompt
BreakpointLineRead == pc = "prompt" /\ Len(line') = 2 /\ line'[1] = "breakpoint"

C13_RegisteredStaysRegistered ==
    [][Registered \subseteq DOMAIN breakpoints']_vars

\* an address is still registered after the first child exited and a second
\* one was launched and looked at
C13_Witness ==
    /\ AtPrompt /\ Live
    /\ Len(procs) = 2
    /\ cmd = <<"backtrace">>
    /\ Registered = {2, 3}

\* C14: a breakpoint command is accepted in every state of the session: its
\* address becomes a key of the mapping and the prompt comes again; with a
\* child alive the trap opcode is at that address in the child at once, with
\* none alive no child's memory changes.
C14_BreakpointAcceptedEverywhere ==
    [][(BreakpointLineRead /\ IsHexLiteral(line'[2]))
          => LET a == Unwrap(parse_address(line'[2]))
             IN  /\ a \in DOMAIN breakpoints'
                 /\ pc' = "prompt"
                 /\ Live => (a \in Addr /\ procs'[Unwrap(inferior)].mem[a] = TrapOpcode)
                 /\ ~Live => procs' = procs]_vars

\* go has just been told by wait that the child stopped
GoStopped == pc \in {"prompt", "run_install"} /\ waited'.st.kind = "Stopped"

\* C15: when the child stops on a signal that is no trap, or on a trap behind an
\* address that is no key of the mapping, the stop is reported, the child is
\* kept, and neither the mapping nor the child's memory changes.
C15_UnmanagedStopChangesNothing ==
    [][(GoStopped /\ (waited'.st.sig # "SIGTRAP" \/ (waited'.st.val - 1) \notin Registered))
          => /\ out' # << >> /\ out'[Len(out')] = "child stopped"
             /\ inferior' = inferior
             /\ pc' = "prompt"
             /\ breakpoints' = breakpoints
             /\ procs'[Unwrap(inferior)].mem = procs[Unwrap(inferior)].mem]_vars

\* a child with a patched breakpoint was stopped by an interrupt
C15_Witness ==
    /\ AtPrompt /\ Live
    /\ waited.st = Status("Stopped", "SIGINT", 3)
    /\ Installed(3)
    /\ out = <<"child stopped">>

\* the child print_backtrace is run on, and whether an address resolves
Walked == procs[1]
Resolves(ip) == get_function_from_addr(ip) # None /\ get_line_from_addr(ip) # None
IsEntry(ip) == get_function_from_addr(ip) = Some("main")

\* C16: the walk of a child stopped inside main prints the frame of main and
\* nothing else, returns Ok, and reads no memory of the child.
C16_MainIsOneFrame ==
    (call.fn = "print_backtrace" /\ InMain(Walked.rip))
        => /\ call.reads = << >>
           /\ call.st \in {"start", "loop", "ok"}
           /\ call.st = "ok" => call.out = <<"main">>
           /\ call.st \in {"start", "loop"} => call.out = << >>

\* the walk from inside main ended although no word of a caller's frame could be read
C16_Witness ==
    /\ call.fn = "print_backtrace" /\ call.st = "ok"
    /\ Walked.rip = 1 /\ Walked.rbp = 32
    /\ call.out = <<"main">>
    /\ trace = <<"getregs">>

\* the chain of frames of the stopped child: frame 0 is its registers, frame
\* k + 1 is read at frame k's frame pointer (def: the reads can be done)
RECURSIVE ChainAt(_)
ChainAt(k) ==
    IF k = 0 THEN [def |-> TRUE, ip |-> Walked.rip, fp |-> Walked.rbp]
    ELSE LET c == ChainAt(k - 1)
         IN  IF c.def /\ Mapped(c.fp) /\ Mapped(c.fp + WordSize)
             THEN [def |-> TRUE,
                   ip |-> WordToAddr(PeekWord(Walked.mem, c.fp + WordSize)),
                   fp |-> WordToAddr(PeekWord(Walked.mem, c.fp))]
             ELSE [def |-> FALSE, ip |-> -1, fp |-> -1]

\* what was looked up and printed so far follows the chain, innermost frame
\* first: turn i looked up the instruction pointer of frame i - 1 and printed
\* its function, or, failing to resolve it, the message with that address and
\* no frame; every frame but the last is a resolved one outside main; the reads
\* are, frame by frame, the word above the frame pointer and the word at it
WalkFollowsChain ==
    LET n == Len(call.ips)
    IN  /\ Len(call.out) = n
        /\ \A i \in 1 .. n :
              /\ ChainAt(i - 1).def
              /\ call.ips[i] = ChainAt(i - 1).ip
              /\ IF Resolves(call.ips[i])
                 THEN call.out[i] = Unwrap(get_function_from_addr(call.ips[i]))
                 ELSE /\ call.out[i] = "couldn't find line or func"
                      /\ call.lost = Some(call.ips[i])
              /\ i < n => (Resolves(call.ips[i]) /\ ~IsEntry(call.ips[i]))
        /\ \A j \in 1 .. Len(call.reads) :
              call.reads[j] = ChainAt((j - 1) \div 2).fp + (IF j % 2 = 1 THEN WordSize ELSE 0)
        /\ (n > 0 /\ (IsEntry(call.ips[n]) \/ ~Resolves(call.ips[n]))) => call.st = "ok"

\* the last instruction pointer looked up is in main or does not resolve
EndsAtEntryOrLost ==
    LET n == Len(call.ips)
    IN  n > 0 /\ (IsEntry(call.ips[n]) \/ ~Resolves(call.ips[n]))

\* C17 as claimed: the walk follows the chain and, once over, has ended with
\* the frame of main or with the message at the first address that does not resolve.
C17_WalkEndsAtEntryOrLost ==
    call.fn = "print_backtrace"
        => /\ WalkFollowsChain
           /\ call.st \in {"ok", "err"} => EndsAtEntryOrLost

\* C17, amended: the walk follows the chain and, once over, has ended with the
\* frame of main, or with the message at the first address that does not
\* resolve, or with the error of a read of the next frame that failed, after
\* the frames printed so far.
C17_WalkFollowsChainToItsEnd ==
    call.fn = "print_backtrace"
        => /\ WalkFollowsChain
           /\ call.st = "ok" => EndsAtEntryOrLost
           /\ call.st = "err" =>
                 LET n == Len(call.ips)
                 IN  /\ n > 0 /\ Resolves(call.ips[n]) /\ ~IsEntry(call.ips[n])
                     /\ ~ChainAt(n).def
                     /\ call.lost = None

\* three frames were printed along a chain that ends in main
C17_Witness ==
    /\ call.fn = "print_backtrace" /\ call.st = "ok"
    /\ call.out = <<"foo", "foo", "main">>
    /\ call.reads = <<24, 16, 32, 24>>

\* C18: backtrace with no process changes nothing of the session and tells
\* the operator that no process is running.
C18_BacktraceWhenIdle ==
    [][(AtPrompt /\ inferior = None /\ cmd' = <<"backtrace">>)
          => /\ out' # << >>
             /\ breakpoints' = breakpoints
             /\ inferior' = None
             /\ procs' = procs
             /\ pc' = "prompt"
             /\ trace' = << >>]_vars

\* C19: a write_byte that succeeds leaves val in the byte at addr and every
\* other byte of the child's memory, those of the same word included, as it
\* was, and returns the byte that was at addr; it succeeds at every address of
\* the child's memory, whatever its offset in its word.
C19_WriteByteChangesOneByte ==
    [][(call.fn = "write_byte" /\ call.st = "start")
          => /\ call.addr \in Addr => call'.st = "ok"
             /\ call'.st = "ok" =>
                   /\ procs'[1].mem[call.addr] = call.val
                   /\ \A a \in Addr \ {call.addr} : procs'[1].mem[a] = procs[1].mem[a]
                   /\ call'.ret = procs[1].mem[call.addr]]_vars

\* the last byte of a word was replaced by the trap opcode, its neighbour kept
C19_Witness ==
    /\ call.fn = "write_byte" /\ call.st = "ok"
    /\ call.addr = 15 /\ call.val = TrapOpcode /\ call.ret = 16
    /\ procs[1].mem[15] = TrapOpcode /\ procs[1].mem[14] = 15

\* C20: wait turns a normal exit into Exited with its code, a death by signal
\* into Signaled with the signal, a stop into Stopped with the signal and the
\* instruction pointer of the registers; on any other status the debugger dies.
C20_WaitMapsStatus ==
    (call.fn = "wait" /\ call.st # "start")
        => LET ws == call.ws
           IN  CASE ws.kind = "Exited" ->
                      pc # "panicked" /\ waited.st = Status("Exited", "none", ws.val)
                 [] ws.kind = "Signaled" ->
                      pc # "panicked" /\ waited.st = Status("Signaled", ws.sig, 0)
                 [] ws.kind = "Stopped" ->
                      pc # "panicked" /\ waited.st = Status("Stopped", ws.sig, Walked.rip)
                 [] OTHER -> pc = "panicked"

\* a ptrace event status made the debugger panic
C20_Witness ==
    /\ call.fn = "wait" /\ call.st = "panic"
    /\ call.ws.kind = "PtraceEvent"
    /\ pc = "panicked"

\* the characters after the optional 0x or 0X, whether all of them (and at
\* least one) are hexadecimal digits, and the number they write
LiteralBody(lit) == IF HasPrefix(lit) THEN SubSeq(lit, 3, Len(lit)) ELSE lit
OnlyHexDigits(body) == body # << >> /\ \A i \in 1 .. Len(body) : HexVal(body[i]) >= 0
RECURSIVE HexNumber(_)
HexNumber(body) ==
    IF body = << >> THEN 0
    ELSE 16 * HexNumber(SubSeq(body, 1, Len(body) - 1)) + HexVal(body[Len(body)])

\* C21: parse_address returns the number written by a literal of hexadecimal
\* digits after an optional 0x or 0X, and None for every other literal: one
\* with a character that is no hexadecimal digit, a sign included, or with
\* no digit at all.
C21_ParseAddressHexOnly ==
    (call.fn = "parse_address" /\ call.st = "done")
        => IF OnlyHexDigits(LiteralBody(call.addr))
           THEN call.ret = Some(HexNumber(LiteralBody(call.addr)))
           ELSE call.ret = None

ForwardedInMinute(c, t) ==
    {k \in DOMAIN proxy.forwarded[c] :
        proxy.forwarded[c][k] >= t /\ proxy.forwarded[c][k] < t + one_minute}

\* C23: with max_requests_per_minute = M > 0 at most M requests of one client
\* are passed upstream within any one minute, the rest being answered 429;
\* with M = 0 no request is rejected.
C23_AtMostMPerMinute ==
    proxy.fn = "rate_limit" =>
        \A c \in Clients :
            IF proxy.max_requests_per_minute = 0
            THEN proxy.rejected[c] = 0
            ELSE \A k \in DOMAIN proxy.forwarded[c] :
                    Cardinality(ForwardedInMinute(c, proxy.forwarded[c][k]))
                        <= proxy.max_requests_per_minute

\* C24: whenever no target process is alive (before the first run, or after
\* the process exited, was killed or was signaled), no entry of the breakpoint
\* mapping records an original byte.
C24_NoPatchedStateWithoutProcess ==
    (AtPrompt /\ AliveChildren = {}) =>
        \A a \in Registered : breakpoints[a] = None

\* C25: with a live process, every entry that records patched state for an
\* address records as original byte the byte the program has there before any
\* trap is written, never the trap opcode itself.
C25_OriginalByteIsTheProgramsByte ==
    (AtPrompt /\ Live) =>
        \A a \in Registered \cap Addr :
            breakpoints[a] # None
                => /\ Unwrap(breakpoints[a]).orig_byte = ProgramImage[a]
                   /\ Unwrap(breakpoints[a]).orig_byte # TrapOpcode

\* the trace requests a step issues, in order (each command starts its own trace)
Requested == IF pc = "prompt" THEN trace' ELSE SubSeq(trace', Len(trace) + 1, Len(trace'))
Resumes == {"cont", "cont:Err"}

\* C26: on run, the breakpoints are written into the new process only once
\* the child is stopped under tracing, and the first resume comes only after
\* all of them and on a child that is stopped: no instruction of the target
\* runs before.
C26_InstalledBeforeTargetRuns ==
    [][(pc = "run_install" /\ Requested # << >>)
          => /\ Traceable(inferior)
             /\ (Requested[1] \in Resumes => pending = {})]_vars

\* C27: every trace request goes to a process that is alive and stopped under
\* tracing; each resume is followed by one wait before any other request; and
\* no resume follows a wait that reported the process exited or signaled.
C27_RequestsOnlyOnStoppedProcess ==
    [][Requested # << >>
          => /\ Traceable(inferior)
             /\ \A i \in DOMAIN Requested :
                    Requested[i] = "cont" => (i < Len(Requested) /\ Requested[i + 1] = "wait")
             /\ \A i \in DOMAIN Requested :
                    (Requested[i] = "wait" /\ waited'.st.kind \in {"Exited", "Signaled"})
                        => \A j \in (i + 1) .. Len(Requested) : Requested[j] \notin Resumes]_vars

\* C28: a backtrace comes to an end, with finitely many frames printed,
\* whatever the memory of the target holds; also when the frame pointers form
\* a cycle and every instruction pointer on it lies in a function other than
\* main.
C28_BacktraceTerminates ==
    <>(call.fn = "print_backtrace" /\ call.st \in {"ok", "err"})

\* C29: connect_to_upstream always returns, whatever the other connection
\* tasks and the health check do meanwhile: with a connection to an upstream
\* that was not marked dead when it was selected, or with an error; it does
\* not go on selecting for ever among upstreams that were all marked dead
\* after its check.
C29_ConnectToUpstreamReturns ==
    /\ [](proxy.fn = "upstreams" =>
            \A t \in Tasks : proxy.tasks[t].at = "ok" => ~proxy.tasks[t].picked_dead)
    /\ \A t \in 1 .. MaxTasks :
          [](proxy.tasks[t].at = "check" => <>(proxy.tasks[t].at \in {"ok", "err"}))

\* the step ends a round of the health check
RoundEnds == proxy.fn = "upstreams" /\ proxy.hc.at = "round" /\ proxy'.hc.at = "delay"

\* C30: at the end of each round of the health check an upstream is marked
\* alive when it answered 200 in the round and marked dead when it did not
\* (connection refused, read error, another status).
C30_RoundMarksByAnswer ==
    [][RoundEnds =>
          \A i \in Upstreams :
              proxy'.upstream_addresses[i].is_dead = (proxy'.hc.answers[i] # "200")]_vars

\* C31: with one worker or more, parallel_map does not panic and no worker
\* stops while items are left in the input channel: every item is taken by
\* one worker, once, and the collector finds a result for each of them.
C31_NoWorkerLeavesItemsBehind ==
    (pmap.fn = "parallel_map" /\ pmap.num_threads >= 1) =>
        /\ pmap.main # "panicked"
        /\ \A t \in Workers : pmap.workers[t].at = "done" => pmap.r1 = << >>
        /\ pmap.main = "collect" =>
               Len(pmap.got) + Len(pmap.r2) = Len(pmap.input_vec)

\* the nodes reachable from a head
RECURSIVE Reachable(_)
Reachable(head) == IF head = None THEN 0 ELSE 1 + Reachable(Unwrap(head).next)

\* C32: after any sequence of push_front and pop_front, get_size is the number
\* of nodes reachable from head and is_empty holds exactly when head is None;
\* pop_front on an empty list returns None and leaves the size at 0.
C32_SizeCountsTheNodes ==
    /\ [](list.fn = "linked_list" =>
            /\ get_size(list.l) = Reachable(list.l.head)
            /\ is_empty(list.l) <=> (list.l.head = None))
    /\ [][(list.fn = "linked_list" /\ list.l.head = None /\ list'.op \in {"pop_front", "next"})
            => (list'.ret = None /\ get_size(list'.l) = 0)]_vars

\* a pop has left two of three nodes
C32_Witness ==
    /\ list.fn = "linked_list" /\ list.op = "pop_front"
    /\ list.ret = Some(22)
    /\ get_size(list.l) = 2
    /\ list.log = <<11, 21>>

\* C33: the list is last-in first-out: pop_front returns the value pushed
\* last among those not yet popped (None when there is none), and the loop
\* that takes the list by value yields the values left in that same order.
C33_LastInFirstOut ==
    /\ [][(list.fn = "linked_list" /\ list'.op \in {"pop_front", "next"})
            => list'.ret = (IF list.log = << >> THEN None
                            ELSE Some(list.log[Len(list.log)]))]_vars
    /\ [](list.fn = "linked_list" =>
            /\ Len(list.yielded) <= Len(list.from)
            /\ list.yielded = SubSeq(list.from, 1, Len(list.yielded))
            /\ list.at = "dropped" => list.yielded = list.from)

\* the loop has yielded three values, the last pushed first
C33_Witness ==
    /\ list.fn = "linked_list" /\ list.at = "dropped"
    /\ list.yielded = <<22, 21, 11>>

====
